---- MODULE Spec2Model ----
(***************************************************************************)
(* HecateOS welcome wizard (scripts/hecate-welcome.py).                    *)
(*                                                                         *)
(* The program is one sequential process.  It suspends only where it reads *)
(* a key (getch), sleeps, or calls an external collaborator (a subprocess, *)
(* the file system).  Each action below runs the code from one such point  *)
(* to the next; the environment's answer at that point (the key, whether   *)
(* the executable launches, what the file holds) is the action's input.    *)
(*                                                                         *)
(* Python dicts are functions whose DOMAIN is the set of keys present.     *)
(* The hardware profile is a JSON object whose sections are objects and    *)
(* whose fields are strings; only the sections the control flow and the    *)
(* option labels read (gpu.vendor, system.profile) are kept.               *)
(***************************************************************************)
EXTENDS Integers, Sequences, FiniteSets, TLC

VARIABLES
    pc,                \* where the process is suspended
    current_step,      \* self.current_step
    current_step_log,  \* history: the values current_step was given, in order
    hardware_profile,  \* self.hardware_profile
    user_choices,      \* self.user_choices
    current_selection, \* show_menu's local current_selection
    fold_selection,    \* history: the clamped fold of the keys read in this menu
    ret,               \* history: the value show_menu returned last (NoReturn before)
    desc_rows,         \* option indices whose description text is on the screen
    bar_filled,        \* cells of the progress bar drawn with the filled glyph
    bar_empty,         \* cells of the progress bar drawn with the empty glyph
    bar_x,             \* column where the progress bar starts
    term_width,        \* terminal width reported by getmaxyx
    profile_file,      \* /etc/hecate/hardware-profile.json
    config_file,       \* /etc/hecate/user-config.json
    persist_count,     \* history: writes of the user-config file
    apply_count,       \* history: launches of hecate-apply-optimizations
    apply_status,      \* history: exit status of the last apply run
    marker,            \* /etc/hecate/.firstboot_done exists
    error_shown,       \* the "Error detecting hardware" message was drawn
    tasks_shown,       \* task labels drawn by apply_configuration
    trace,             \* history: the screens rendered, in order
    cancelled,         \* history: the choice steps whose menu returned -1
    detect_launched,   \* history: did subprocess.run of the detection return
    exit_status        \* process exit status (NoExit while running)

vars == <<pc, current_step, current_step_log, hardware_profile, user_choices,
          current_selection, fold_selection, ret, desc_rows, bar_filled, bar_empty, bar_x,
          term_width, profile_file, config_file, persist_count, apply_count,
          apply_status, marker, error_shown, tasks_shown, trace, cancelled,
          detect_launched, exit_status>>

-----------------------------------------------------------------------------
(* Bounds of the model *)

\* terminal widths drawn for the progress bar
MinWidth == 60

MaxWidth == 80

\* a double operation's relative rounding error is below 1/RoundingDen
RoundingDen == 1000000

-----------------------------------------------------------------------------
(* Program constants *)

total_steps == 7

progress_width == 50

KEY_UP == "KEY_UP"

KEY_DOWN == "KEY_DOWN"

KEY_ENTER == "\n"

KEY_QUIT == "q"

\* the keys getch can deliver: the four the loop tests and two it does not
Keys == {KEY_UP, KEY_DOWN, KEY_ENTER, KEY_QUIT, "x", "KEY_RESIZE"}

NoReturn == -2

NoExit == -1

\* Python's None, the default of dict.get
None == "<None>"

-----------------------------------------------------------------------------
(* Python dicts *)

EmptyDict == [k \in {} |-> None]

Get(d, k, default) == IF k \in DOMAIN d THEN d[k] ELSE default
\* mutant: the assignment rebinds user_choices to a dict of the one field
DictSetRebinds(d, k, v) == [x \in {k} |-> v]

DictSet(d, k, v) == [x \in (DOMAIN d) \cup {k} |-> IF x = k THEN v ELSE d[x]]

-----------------------------------------------------------------------------
(* draw_progress *)

Max0(n) == IF n < 0 THEN 0 ELSE n

\* mutant: round() where the code truncates with int()
FilledOutcomesRounded(step) ==
    {(2 * step * progress_width + total_steps) \div (2 * total_steps)}

\* int((current_step / total_steps) * progress_width), in double arithmetic.
\* A quotient of small integers that divides evenly is computed exactly, and
\* so is its product with progress_width; any other result is within the
\* rounding error of the exact value, and int() truncates whatever it is given.
FilledOutcomes(step) ==
    LET n == step * progress_width
        d == total_steps * RoundingDen
    IN  IF step % total_steps = 0
        THEN {n \div total_steps}
        ELSE ((n * (RoundingDen - 1)) \div d) .. ((n * (RoundingDen + 1)) \div d)

\* the bar string: "█" * filled + "░" * (progress_width - filled)
DrawProgress(step) ==
    \E filled \in FilledOutcomes(step) :
        /\ bar_filled' = Max0(filled)
        /\ bar_empty' = Max0(progress_width - filled)
        /\ bar_x' = (term_width - progress_width) \div 2

-----------------------------------------------------------------------------
(* The menus: option lists, key lists and target fields of the step methods *)

step_welcome == "step_welcome"

detect_hardware == "detect_hardware"

step_profile_selection == "step_profile_selection"

step_optimizations == "step_optimizations"

step_nvidia_settings == "step_nvidia_settings"

step_developer_tools == "step_developer_tools"

step_privacy_telemetry == "step_privacy_telemetry"

apply_configuration == "apply_configuration"

show_complete == "show_complete"

Menus == {step_welcome, step_profile_selection, step_optimizations,
          step_nvidia_settings, step_developer_tools, step_privacy_telemetry}

\* an option label; recommended is the " (Recommended)" suffix
Opt(name, rec) == [label |-> name, recommended |-> rec]

\* mutant: a missing system.profile defaults to a profile that has a label
RecommendedDefaultGaming(hp) ==
    Get(Get(hp, "system", EmptyDict), "profile", "gaming")

\* recommended = self.hardware_profile.get('system', {}).get('profile', 'standard')
Recommended(hp) == Get(Get(hp, "system", EmptyDict), "profile", "standard")

\* self.hardware_profile.get('gpu', {}).get('vendor')
GpuVendor(hp) == Get(Get(hp, "gpu", EmptyDict), "vendor", None)

\* mutant: the Workstation label tests the key of the label above it
ProfileOptionsCopied(hp) ==
    LET recommended == Get(Get(hp, "system", EmptyDict), "profile", "standard")
    IN  << [label |-> "Ultimate", recommended |-> recommended = "ultimate"],
           [label |-> "Workstation", recommended |-> recommended = "ultimate"],
           [label |-> "Gaming", recommended |-> recommended = "gaming"],
           [label |-> "Developer", recommended |-> recommended = "developer"],
           [label |-> "Server", recommended |-> recommended = "server"],
           [label |-> "Automatic", recommended |-> FALSE] >>

ProfileOptions(hp) ==
    LET recommended == Recommended(hp)
    IN  << Opt("Ultimate", recommended = "ultimate"),
           Opt("Workstation", recommended = "workstation"),
           Opt("Gaming", recommended = "gaming"),
           Opt("Developer", recommended = "developer"),
           Opt("Server", recommended = "server"),
           Opt("Automatic", FALSE) >>

Options(m, hp) ==
    CASE m = step_welcome ->
            << Opt("Start Setup", FALSE), Opt("Skip Setup", FALSE) >>
      [] m = step_profile_selection -> ProfileOptions(hp)
      [] m = step_optimizations ->
            << Opt("Maximum Performance", FALSE), Opt("Balanced", FALSE),
               Opt("Power Saver", FALSE), Opt("Custom", FALSE) >>
      [] m = step_nvidia_settings ->
            << Opt("Gaming Mode", FALSE), Opt("Creator Mode", FALSE),
               Opt("Compute Mode", FALSE), Opt("Automatic", FALSE) >>
      [] m = step_developer_tools ->
            << Opt("Full Stack", FALSE), Opt("Web Development", FALSE),
               Opt("System Programming", FALSE), Opt("Data Science", FALSE),
               Opt("DevOps", FALSE), Opt("Minimal", FALSE) >>
      [] m = step_privacy_telemetry ->
            << Opt("Maximum Privacy", FALSE), Opt("Minimal Telemetry", FALSE),
               Opt("Help Improve HecateOS", FALSE) >>

\* the lists profiles, modes, stacks, levels the steps index with the choice
profiles == <<"ultimate", "workstation", "gaming", "developer", "server", "auto">>
\* mutant: the levels list is one key short of the privacy menu's options
KeyListShort(m) ==
    CASE m = step_profile_selection -> profiles
      [] m = step_optimizations -> <<"performance", "balanced", "powersave", "custom">>
      [] m = step_nvidia_settings -> <<"gaming", "creator", "compute", "auto">>
      [] m = step_developer_tools ->
            <<"full", "web", "systems", "datascience", "devops", "minimal">>
      [] m = step_privacy_telemetry -> <<"maximum", "minimal">>
      [] OTHER -> <<>>

KeyList(m) ==
    CASE m = step_profile_selection -> profiles
      [] m = step_optimizations -> <<"performance", "balanced", "powersave", "custom">>
      [] m = step_nvidia_settings -> <<"gaming", "creator", "compute", "auto">>
      [] m = step_developer_tools ->
            <<"full", "web", "systems", "datascience", "devops", "minimal">>
      [] m = step_privacy_telemetry -> <<"maximum", "minimal", "full">>
      [] OTHER -> <<>>

Field(m) ==
    CASE m = step_profile_selection -> "profile"
      [] m = step_optimizations -> "optimization_mode"
      [] m = step_nvidia_settings -> "nvidia_mode"
      [] m = step_developer_tools -> "dev_stack"
      [] m = step_privacy_telemetry -> "privacy_level"
      [] OTHER -> None

\* Python list indexing with a non-negative index (0-based)
InRange(list, i) == i + 1 \in DOMAIN list

Index(list, i) == list[i + 1]

\* mutant: the guard is gone, and keys[-1] is the last key of the list
RecordChoiceNoGuard(m, choice) ==
    DictSet(user_choices, Field(m),
            IF choice >= 0 THEN Index(KeyList(m), choice)
                           ELSE KeyList(m)[Len(KeyList(m))])

\* if choice >= 0: self.user_choices[field] = keys[choice]
RecordChoice(m, choice) ==
    IF choice >= 0
    THEN DictSet(user_choices, Field(m), Index(KeyList(m), choice))
    ELSE user_choices

-----------------------------------------------------------------------------
(* The files the wizard reads and writes *)

NoFile == [state |-> "absent", content |-> EmptyDict]

MalformedFile == [state |-> "malformed", content |-> EmptyDict]

JsonFile(d) == [state |-> "valid", content |-> d]

\* json.dump of a flat mapping of strings, and json.load of the result
JsonDump(d) == JsonFile([k \in DOMAIN d |-> d[k]])

\* the hardware profiles the detection executable is taken to write: every
\* value of system.profile the labels distinguish and of gpu.vendor the GPU
\* step distinguishes, with the section or the field absent as well
Profiles ==
    { EmptyDict,
      [system |-> EmptyDict],
      [gpu |-> EmptyDict],
      [system |-> [profile |-> "ultimate"]],
      [gpu |-> [vendor |-> "nvidia"]],
      [system |-> [profile |-> "workstation"], gpu |-> [vendor |-> "amd"]],
      [system |-> [profile |-> "gaming"], gpu |-> [vendor |-> "nvidia"]],
      [system |-> [profile |-> "developer"], gpu |-> [vendor |-> "NVIDIA"]],
      [system |-> [profile |-> "server"], gpu |-> EmptyDict],
      [system |-> [profile |-> "auto"], gpu |-> [vendor |-> "intel"]],
      [system |-> [profile |-> "standard"], gpu |-> [vendor |-> "amd"]] }

WrittenFiles == {MalformedFile} \cup {JsonFile(p) : p \in Profiles}

\* what may be at the profile path before the wizard starts
InitFiles ==
    {NoFile, MalformedFile,
     JsonFile([system |-> [profile |-> "gaming"], gpu |-> [vendor |-> "nvidia"]])}

\* the user-config file a completed earlier run left behind
OldConfigFile ==
    JsonFile([profile |-> "server", optimization_mode |-> "custom",
              nvidia_mode |-> "compute", dev_stack |-> "devops",
              privacy_level |-> "full"])

\* input("... Run setup again? (y/N): ")
Responses == {"y", "Y", "n", ""}

Lower(r) == IF r = "Y" THEN "y" ELSE r

\* the task labels apply_configuration draws
tasks == <<"Applying system profile...", "Configuring optimizations...",
           "Setting up GPU...", "Installing tools...", "Finalizing settings...">>

-----------------------------------------------------------------------------
(* Initial state: the process is started, nothing is constructed yet; the  *)
(* fields hold the values HecateWelcome.__init__ gives them.               *)

Init ==
    /\ pc = "main"
    /\ current_step = 0
    /\ current_step_log = <<0>>
    /\ hardware_profile = EmptyDict
    /\ user_choices = EmptyDict
    /\ current_selection = 0
    /\ fold_selection = 0
    /\ ret = NoReturn
    /\ desc_rows = {}
    /\ bar_filled = 0
    /\ bar_empty = 0
    /\ bar_x = 0
    /\ term_width = MaxWidth
    /\ profile_file \in InitFiles
    /\ marker \in BOOLEAN
    /\ config_file = IF marker THEN OldConfigFile ELSE NoFile
    /\ persist_count = 0
    /\ apply_count = 0
    /\ apply_status = NoExit
    /\ error_shown = FALSE
    /\ tasks_shown = 0
    /\ trace = <<>>
    /\ cancelled = {}
    /\ detect_launched = "not yet"
    /\ exit_status = NoExit

-----------------------------------------------------------------------------
(* show_menu *)

\* The reference the confirmed index is compared with: Up as max(sel-1, 0),
\* Down as min(sel+1, n-1), any other key leaves the selection alone.
FoldStep(sel, key, n) ==
    CASE key = KEY_UP -> IF sel - 1 > 0 THEN sel - 1 ELSE 0
      [] key = KEY_DOWN -> IF sel + 1 < n - 1 THEN sel + 1 ELSE n - 1
      [] OTHER -> sel

\* mutant: Up on the first option wraps to the last, Down on the last to the first
NextSelectionWraps(sel, key, n) ==
    IF key = KEY_UP THEN (IF sel > 0 THEN sel - 1 ELSE n - 1)
    ELSE IF key = KEY_DOWN THEN (IF sel < n - 1 THEN sel + 1 ELSE 0)
    ELSE sel

\* the if / elif chain of the input loop, as far as current_selection goes
NextSelection(sel, key, n) ==
    IF key = KEY_UP /\ sel > 0 THEN sel - 1
    ELSE IF key = KEY_DOWN /\ sel < n - 1 THEN sel + 1
    ELSE sel

\* mutant: the confirm key returns the index the menu opened with
ReturnValueStale(sel, key) == IF key = KEY_ENTER THEN 0 ELSE -1

\* mutant: the quit key returns the highlighted index, as the confirm key does
ReturnValueQuitConfirms(sel, key) == sel

\* the loop's two returning branches; -1 is the cancelled result
Returns(key) == key = KEY_ENTER \/ key = KEY_QUIT

ReturnValue(sel, key) == IF key = KEY_ENTER THEN sel ELSE -1

\* one pass of the drawing loop: the highlighted option's description is
\* written on the row below it; nothing the loop draws is erased
Render(rows, sel) == rows \cup {sel}

ClearScreen ==
    /\ desc_rows' = {}
    /\ bar_filled' = 0
    /\ bar_empty' = 0
    /\ bar_x' = 0
\* mutant: show_menu advances current_step itself, besides what run assigns
EnterMenuAdvancesStep(m, assigned) ==
    LET given == current_step_log \o assigned
        step == given[Len(given)] + 1
    IN  /\ pc' = m
        /\ current_step_log' = Append(given, step)
        /\ current_step' = step
        /\ current_selection' = 0
        /\ fold_selection' = 0
        /\ DrawProgress(step)
        /\ desc_rows' = {0}
        /\ trace' = Append(trace, m)
\* mutant: the profile menu opens on the recommended profile's option
InitialSelectionRecommended(m, hp) ==
    IF m = step_profile_selection
       /\ \E i \in DOMAIN profiles : profiles[i] = Recommended(hp)
    THEN (CHOOSE i \in DOMAIN profiles : profiles[i] = Recommended(hp)) - 1
    ELSE 0

\* current_selection = 0, whatever the menu and the hardware profile
InitialSelection(m, hp) == 0

\* run gives current_step the values of assigned, in order, and calls step
\* m; show_menu up to its first getch: clear, logo, progress bar, first frame
EnterMenu(m, assigned) ==
    LET log == current_step_log \o assigned
        step == log[Len(log)]
    IN  /\ pc' = m
        /\ current_step_log' = log
        /\ current_step' = step
        /\ current_selection' = InitialSelection(m, hardware_profile)
        /\ fold_selection' = 0
        /\ DrawProgress(step)
        /\ desc_rows' = Render({}, current_selection')
        /\ trace' = Append(trace, m)

\* a local of show_menu does not outlive the call
LeaveMenu ==
    /\ current_selection' = 0
    /\ fold_selection' = 0

\* an exception nothing catches: curses.wrapper, where the exception is
\* raised under it, restores the terminal and re-raises; the interpreter
\* prints the traceback and exits with status 1
Crash ==
    /\ pc' = "crashed"
    /\ exit_status' = 1

-----------------------------------------------------------------------------
(* __main__ *)

\* os.geteuid() != 0: sys.exit(1); the other actions of the entry point are
\* the runs started as root
NotRoot ==
    /\ pc = "main"
    /\ pc' = "exit"
    /\ exit_status' = 1
    /\ UNCHANGED <<current_step, current_step_log, hardware_profile,
                   user_choices,
                   current_selection, fold_selection, ret, desc_rows,
                   bar_filled, bar_empty, bar_x, term_width, cancelled,
                   detect_launched, profile_file,
                   config_file, persist_count, apply_count, apply_status,
                   marker, error_shown, tasks_shown, trace>>

\* the marker exists and the answer is not 'y': sys.exit(0)
Decline ==
    /\ pc = "main"
    /\ marker
    /\ \E response \in Responses : Lower(response) # "y"
    /\ pc' = "exit"
    /\ exit_status' = 0
    /\ UNCHANGED <<current_step, current_step_log, hardware_profile,
                   user_choices,
                   current_selection, fold_selection, ret, desc_rows,
                   bar_filled, bar_empty, bar_x, term_width, cancelled,
                   detect_launched, profile_file,
                   config_file, persist_count, apply_count, apply_status,
                   marker, error_shown, tasks_shown, trace>>

\* wrapper(main): construct the wizard, run(), step_welcome, show_menu
Start ==
    /\ pc = "main"
    /\ ~marker \/ \E response \in Responses : Lower(response) = "y"
    /\ EnterMenu(step_welcome, <<>>)
    /\ UNCHANGED <<hardware_profile, user_choices, ret, term_width,
                   cancelled, detect_launched,
                   profile_file, config_file, persist_count, apply_count,
                   apply_status, marker, error_shown, tasks_shown,
                   exit_status>>

\* a file of /etc/hecate exists, and the directory with it; where none does,
\* the directory may be there or not
DirectoryKnown ==
    \/ marker
    \/ profile_file.state # "absent"
    \/ config_file.state # "absent"

\* wrapper(main) returned and /etc/hecate does not exist: touch raises
\* FileNotFoundError, which nothing catches
FinishTouchFails ==
    /\ pc = "returned"
    /\ ~DirectoryKnown
    /\ Crash
    /\ UNCHANGED <<current_step, current_step_log, hardware_profile,
                   user_choices,
                   current_selection, fold_selection, ret, desc_rows,
                   bar_filled, bar_empty, bar_x, term_width, cancelled,
                   detect_launched, profile_file,
                   config_file, persist_count, apply_count, apply_status,
                   marker, error_shown, tasks_shown, trace>>

\* wrapper(main) returned: Path('/etc/hecate/.firstboot_done').touch()
Finish ==
    /\ pc = "returned"
    /\ marker' = TRUE
    /\ pc' = "exit"
    /\ exit_status' = 0
    /\ UNCHANGED <<current_step, current_step_log, hardware_profile,
                   user_choices,
                   current_selection, fold_selection, ret, desc_rows,
                   bar_filled, bar_empty, bar_x, term_width, cancelled,
                   detect_launched, profile_file,
                   config_file, persist_count, apply_count, apply_status,
                   error_shown, tasks_shown, trace>>

-----------------------------------------------------------------------------
(* run: what follows the return of each step's menu *)

\* mutant: only the cancelled result ends the run
StepWelcomeQuitOnly(choice) == choice # -1

\* step_welcome's result: False for "Skip Setup" (choice 1), True otherwise
StepWelcome(choice) == choice # 1

\* mutant: any vendor opens the GPU menu
NvidiaAppliesAnyVendor(hp) == GpuVendor(hp) # None

\* step_nvidia_settings goes on to its menu
NvidiaApplies(hp) == ~(GpuVendor(hp) # "nvidia")

\* current_step = 1; detect_hardware up to subprocess.run
BeginDetect ==
    /\ pc' = detect_hardware
    /\ current_step' = 1
    /\ current_step_log' = Append(current_step_log, 1)
    /\ ClearScreen
    /\ LeaveMenu
    /\ trace' = Append(trace, detect_hardware)

\* apply_configuration up to its first task label
BeginApply ==
    /\ pc' = apply_configuration
    /\ ClearScreen
    /\ LeaveMenu
    /\ tasks_shown' = 0
    /\ trace' = Append(trace, apply_configuration)
    /\ UNCHANGED <<current_step, current_step_log>>

Continue(m, choice) ==
    CASE m = step_welcome ->
            /\ UNCHANGED <<user_choices, tasks_shown>>
            /\ IF StepWelcome(choice)
               THEN BeginDetect
               ELSE /\ pc' = "returned"
                    /\ LeaveMenu
                    /\ UNCHANGED <<current_step, current_step_log, desc_rows,
                                   bar_filled, bar_empty, bar_x, trace>>
      [] m = step_profile_selection ->
            /\ user_choices' = RecordChoice(m, choice)
            /\ EnterMenu(step_optimizations, <<3>>)
            /\ UNCHANGED tasks_shown
      [] m = step_optimizations ->
            /\ user_choices' = RecordChoice(m, choice)
            /\ IF NvidiaApplies(hardware_profile)
               THEN EnterMenu(step_nvidia_settings, <<4>>)
               ELSE EnterMenu(step_developer_tools, <<4, 5>>)
            /\ UNCHANGED tasks_shown
      [] m = step_nvidia_settings ->
            /\ user_choices' = RecordChoice(m, choice)
            /\ EnterMenu(step_developer_tools, <<5>>)
            /\ UNCHANGED tasks_shown
      [] m = step_developer_tools ->
            /\ user_choices' = RecordChoice(m, choice)
            /\ EnterMenu(step_privacy_telemetry, <<6>>)
            /\ UNCHANGED tasks_shown
      [] m = step_privacy_telemetry ->
            /\ user_choices' = RecordChoice(m, choice)
            /\ BeginApply

\* show_menu returns choice to step m; indexing the step's key list with an
\* index it does not have raises IndexError, which nothing catches
ReturnFrom(m, choice) ==
    /\ ret' = choice
    /\ cancelled' = IF choice < 0 /\ m # step_welcome
                    THEN cancelled \cup {m}
                    ELSE cancelled
    /\ IF m # step_welcome /\ choice >= 0 /\ ~InRange(KeyList(m), choice)
       THEN /\ Crash
            /\ UNCHANGED <<current_step, current_step_log, user_choices,
                           current_selection,
                           fold_selection, desc_rows, bar_filled, bar_empty,
                           bar_x, tasks_shown, trace>>
       ELSE /\ Continue(m, choice)
            /\ UNCHANGED exit_status
    /\ UNCHANGED <<hardware_profile, term_width, detect_launched,
                   profile_file, config_file, persist_count, apply_count,
                   apply_status, marker, error_shown>>

\* a key the loop does not return on: update the selection, draw again
Navigate(key) ==
    /\ pc \in Menus
    /\ ~Returns(key)
    /\ LET n == Len(Options(pc, hardware_profile))
       IN  /\ current_selection' = NextSelection(current_selection, key, n)
           /\ fold_selection' = FoldStep(fold_selection, key, n)
    /\ desc_rows' = Render(desc_rows, current_selection')
    /\ UNCHANGED <<pc, current_step, current_step_log, hardware_profile,
                   user_choices, ret,
                   bar_filled, bar_empty, bar_x, term_width, cancelled,
                   detect_launched, profile_file,
                   config_file, persist_count, apply_count, apply_status,
                   marker, error_shown, tasks_shown, trace, exit_status>>

KeyUp == Navigate(KEY_UP)

KeyDown == Navigate(KEY_DOWN)

KeyOther == \E key \in Keys \ {KEY_UP, KEY_DOWN, KEY_ENTER, KEY_QUIT} : Navigate(key)

KeyEnter ==
    /\ pc \in Menus
    /\ Returns(KEY_ENTER)
    /\ ReturnFrom(pc, ReturnValue(current_selection, KEY_ENTER))

KeyQuit ==
    /\ pc \in Menus
    /\ Returns(KEY_QUIT)
    /\ ReturnFrom(pc, ReturnValue(current_selection, KEY_QUIT))

-----------------------------------------------------------------------------
(* detect_hardware *)

\* what is at the profile path once the detection executable has run
AfterDetection(file) == {file} \cup WrittenFiles

\* current_step = 2; step_profile_selection up to its menu's first getch
GoProfileSelection ==
    /\ EnterMenu(step_profile_selection, <<2>>)
    /\ UNCHANGED <<user_choices, ret, term_width, cancelled, config_file,
                   persist_count, apply_count, apply_status, marker,
                   tasks_shown, exit_status>>
\* mutant: the profile file is read whether the launch raised or not
DetectLaunchFailsThenLoads ==
    /\ pc = detect_hardware
    /\ detect_launched' = "raised"
    /\ error_shown' = TRUE
    /\ GoProfileSelection
    /\ hardware_profile' = IF profile_file.state = "valid"
                           THEN profile_file.content
                           ELSE hardware_profile
    /\ UNCHANGED profile_file

\* mutant: the call is outside the try, the exception leaves detect_hardware
DetectLaunchFailsUncaught ==
    /\ pc = detect_hardware
    /\ detect_launched' = "raised"
    /\ Crash
    /\ UNCHANGED <<current_step, current_step_log, hardware_profile,
                   user_choices, current_selection, fold_selection, ret,
                   desc_rows, bar_filled, bar_empty, bar_x, term_width,
                   cancelled, profile_file, config_file, persist_count,
                   apply_count, apply_status, marker, error_shown,
                   tasks_shown, trace>>

\* subprocess.run raises (the executable is missing or cannot be executed):
\* the except branch draws the error and sleeps
DetectLaunchFails ==
    /\ pc = detect_hardware
    /\ detect_launched' = "raised"
    /\ error_shown' = TRUE
    /\ GoProfileSelection
    /\ UNCHANGED <<hardware_profile, profile_file>>

\* the executable ran and there is no profile file: nothing is drawn
DetectNoFile ==
    /\ pc = detect_hardware
    /\ detect_launched' = "returned"
    /\ profile_file' \in AfterDetection(profile_file)
    /\ profile_file'.state = "absent"
    /\ GoProfileSelection
    /\ UNCHANGED <<hardware_profile, error_shown>>

\* json.load raises: the except branch draws the error and sleeps
DetectMalformed ==
    /\ pc = detect_hardware
    /\ detect_launched' = "returned"
    /\ profile_file' \in AfterDetection(profile_file)
    /\ profile_file'.state = "malformed"
    /\ error_shown' = TRUE
    /\ GoProfileSelection
    /\ UNCHANGED hardware_profile

\* the profile is loaded, the summary drawn; wait for a key
DetectLoaded ==
    /\ pc = detect_hardware
    /\ detect_launched' = "returned"
    /\ profile_file' \in AfterDetection(profile_file)
    /\ profile_file'.state = "valid"
    /\ hardware_profile' = profile_file'.content
    /\ pc' = "detect_summary"
    /\ UNCHANGED <<current_step, current_step_log, user_choices,
                   current_selection,
                   fold_selection, ret, desc_rows, bar_filled, bar_empty,
                   bar_x, term_width, cancelled, config_file,
                   persist_count, apply_count, apply_status, marker,
                   error_shown, tasks_shown, trace, exit_status>>

DetectKey ==
    /\ pc = "detect_summary"
    /\ Keys # {}  \* getch returns whatever key is pressed
    /\ GoProfileSelection
    /\ UNCHANGED <<hardware_profile, profile_file, error_shown,
                   detect_launched>>

-----------------------------------------------------------------------------
(* apply_configuration, show_complete *)

\* one pass of the task loop: draw the label, sleep, tick it
ShowTask ==
    /\ pc = apply_configuration
    /\ tasks_shown < Len(tasks)
    /\ tasks_shown' = tasks_shown + 1
    /\ UNCHANGED <<pc, current_step, current_step_log, hardware_profile,
                   user_choices,
                   current_selection, fold_selection, ret, desc_rows,
                   bar_filled, bar_empty, bar_x, term_width, cancelled,
                   detect_launched, profile_file,
                   config_file, persist_count, apply_count, apply_status,
                   marker, error_shown, trace, exit_status>>

\* mkdir raises: nothing catches it
PersistMkdirFails ==
    /\ pc = apply_configuration
    /\ tasks_shown = Len(tasks)
    /\ Crash
    /\ UNCHANGED <<current_step, current_step_log, hardware_profile,
                   user_choices,
                   current_selection, fold_selection, ret, desc_rows,
                   bar_filled, bar_empty, bar_x, term_width, cancelled,
                   detect_launched, profile_file,
                   config_file, persist_count, apply_count, apply_status,
                   marker, error_shown, tasks_shown, trace>>

\* open(config_path, 'w') truncated the file and the write raises
PersistWriteFails ==
    /\ pc = apply_configuration
    /\ tasks_shown = Len(tasks)
    /\ config_file' = MalformedFile
    /\ Crash
    /\ UNCHANGED <<current_step, current_step_log, hardware_profile,
                   user_choices,
                   current_selection, fold_selection, ret, desc_rows,
                   bar_filled, bar_empty, bar_x, term_width, cancelled,
                   detect_launched, profile_file,
                   persist_count, apply_count, apply_status, marker,
                   error_shown, tasks_shown, trace>>
\* mutant: the file is written inside the task loop, after the first label
PersistInsideLoop ==
    /\ pc = apply_configuration
    /\ tasks_shown = 1
    /\ config_file' = JsonDump(user_choices)
    /\ persist_count' = persist_count + 1
    /\ pc' = "run_apply"
    /\ UNCHANGED <<current_step, current_step_log, hardware_profile,
                   user_choices, current_selection, fold_selection, ret,
                   desc_rows, bar_filled, bar_empty, bar_x, term_width,
                   cancelled, detect_launched, profile_file, apply_count,
                   apply_status, marker, error_shown, tasks_shown, trace,
                   exit_status>>

\* json.dump(self.user_choices, f, indent=2)
Persist ==
    /\ pc = apply_configuration
    /\ tasks_shown = Len(tasks)
    /\ config_file' = JsonDump(user_choices)
    /\ persist_count' = persist_count + 1
    /\ pc' = "run_apply"
    /\ UNCHANGED <<current_step, current_step_log, hardware_profile,
                   user_choices,
                   current_selection, fold_selection, ret, desc_rows,
                   bar_filled, bar_empty, bar_x, term_width, cancelled,
                   detect_launched, profile_file,
                   apply_count, apply_status, marker, error_shown,
                   tasks_shown, trace, exit_status>>

\* subprocess.run raises: nothing catches it
ApplyLaunchFails ==
    /\ pc = "run_apply"
    /\ Crash
    /\ UNCHANGED <<current_step, current_step_log, hardware_profile,
                   user_choices,
                   current_selection, fold_selection, ret, desc_rows,
                   bar_filled, bar_empty, bar_x, term_width, cancelled,
                   detect_launched, profile_file,
                   config_file, persist_count, apply_count, apply_status,
                   marker, error_shown, tasks_shown, trace>>
\* mutant: subprocess.run(..., check=True), a non-zero exit status raises
RunApplyChecked ==
    /\ pc = "run_apply"
    /\ \E status \in {0, 1} :
          /\ apply_status' = status
          /\ IF status = 0
             THEN pc' = "apply_done" /\ UNCHANGED exit_status
             ELSE Crash
    /\ apply_count' = apply_count + 1
    /\ UNCHANGED <<current_step, current_step_log, hardware_profile,
                   user_choices, current_selection, fold_selection, ret,
                   desc_rows, bar_filled, bar_empty, bar_x, term_width,
                   cancelled, detect_launched, profile_file, config_file,
                   persist_count, marker, error_shown, tasks_shown, trace>>

\* the apply program ran; its exit status is not looked at
RunApply ==
    /\ pc = "run_apply"
    /\ \E status \in {0, 1} : apply_status' = status
    /\ apply_count' = apply_count + 1
    /\ pc' = "apply_done"
    /\ UNCHANGED <<current_step, current_step_log, hardware_profile,
                   user_choices,
                   current_selection, fold_selection, ret, desc_rows,
                   bar_filled, bar_empty, bar_x, term_width, cancelled,
                   detect_launched, profile_file,
                   config_file, persist_count, marker, error_shown,
                   tasks_shown, trace, exit_status>>

\* "Press any key to continue", then show_complete up to its getch
ApplyKey ==
    /\ pc = "apply_done"
    /\ Keys # {}  \* getch returns whatever key is pressed
    /\ pc' = show_complete
    /\ trace' = Append(trace, show_complete)
    /\ UNCHANGED <<current_step, current_step_log, hardware_profile,
                   user_choices,
                   current_selection, fold_selection, ret, desc_rows,
                   bar_filled, bar_empty, bar_x, term_width, cancelled,
                   detect_launched, profile_file,
                   config_file, persist_count, apply_count, apply_status,
                   marker, error_shown, tasks_shown, exit_status>>

\* "Press any key to exit": run returns
CompleteKey ==
    /\ pc = show_complete
    /\ Keys # {}  \* getch returns whatever key is pressed
    /\ pc' = "returned"
    /\ UNCHANGED <<current_step, current_step_log, hardware_profile,
                   user_choices,
                   current_selection, fold_selection, ret, desc_rows,
                   bar_filled, bar_empty, bar_x, term_width, cancelled,
                   detect_launched, profile_file,
                   config_file, persist_count, apply_count, apply_status,
                   marker, error_shown, tasks_shown, trace, exit_status>>

-----------------------------------------------------------------------------

Next ==
    \/ NotRoot
    \/ Decline
    \/ Start
    \/ KeyUp
    \/ KeyDown
    \/ KeyOther
    \/ KeyEnter
    \/ KeyQuit
    \/ DetectLaunchFails
    \/ DetectNoFile
    \/ DetectMalformed
    \/ DetectLoaded
    \/ DetectKey
    \/ ShowTask
    \/ PersistMkdirFails
    \/ PersistWriteFails
    \/ Persist
    \/ ApplyLaunchFails
    \/ RunApply
    \/ ApplyKey
    \/ CompleteKey
    \/ Finish
    \/ FinishTouchFails

Spec == Init /\ [][Next]_vars

-----------------------------------------------------------------------------
(* draw_progress on its own: every step count it can be asked to draw, on  *)
(* every terminal width of the model                                       *)

DrawProgressCall ==
    /\ pc = "draw_progress"
    /\ DrawProgress(current_step)
    /\ pc' = "drawn"
    /\ UNCHANGED <<current_step, current_step_log, hardware_profile,
                   user_choices,
                   current_selection, fold_selection, ret, desc_rows,
                   term_width, cancelled, detect_launched, profile_file,
                   config_file, persist_count, apply_count, apply_status,
                   marker, error_shown, tasks_shown, trace, exit_status>>

ProgressInit ==
    /\ pc = "draw_progress"
    /\ current_step \in 0 .. total_steps
    /\ current_step_log = <<current_step>>
    /\ term_width \in MinWidth .. MaxWidth
    /\ hardware_profile = EmptyDict
    /\ user_choices = EmptyDict
    /\ current_selection = 0
    /\ fold_selection = 0
    /\ ret = NoReturn
    /\ desc_rows = {}
    /\ bar_filled = 0
    /\ bar_empty = 0
    /\ bar_x = 0
    /\ profile_file = NoFile
    /\ marker = FALSE
    /\ config_file = NoFile
    /\ persist_count = 0
    /\ apply_count = 0
    /\ apply_status = NoExit
    /\ error_shown = FALSE
    /\ tasks_shown = 0
    /\ trace = <<>>
    /\ cancelled = {}
    /\ detect_launched = "not yet"
    /\ exit_status = NoExit

ProgressNext == DrawProgressCall

ProgressSpec == ProgressInit /\ [][ProgressNext]_vars

-----------------------------------------------------------------------------
(* Properties *)

Range(seq) == {seq[i] : i \in DOMAIN seq}

\* the index of a menu's last option
LastIndex(m) == Len(Options(m, hardware_profile)) - 1

\* C1: in a menu the selection is always one of the option indices, and Up
\* on the first option and Down on the last leave it where it is.
C1_SelectionClamped ==
    [][ /\ pc' \in Menus =>
              current_selection' \in 0 .. (Len(Options(pc', hardware_profile')) - 1)
        /\ (KeyUp /\ current_selection = 0) => current_selection' = 0
        /\ (KeyDown /\ current_selection = LastIndex(pc)) =>
              current_selection' = current_selection
      ]_vars

\* the last option of the six-option developer-tools menu is highlighted and
\* every option above it has been highlighted on the way down
C1_Witness ==
    /\ pc = step_developer_tools
    /\ current_selection = 5
    /\ desc_rows = 0 .. 5

\* C2: the confirm key returns the highlighted index, and that index is the
\* clamped fold of the keys read since the menu opened.
C2_ConfirmReturnsHighlighted ==
    [][ KeyEnter => (ret' = current_selection /\ ret' = fold_selection) ]_vars

\* the profile menu was confirmed on its fourth option after navigating there
C2_Witness ==
    /\ pc = step_optimizations
    /\ ret = 3
    /\ user_choices = [profile |-> "developer"]

\* show_menu has returned once, from the Welcome menu, with index 1
SkipConfirmed ==
    /\ ret = 1
    /\ step_profile_selection \notin Range(trace)

\* C3: after "Skip Setup" is confirmed on Welcome the run has returned, no
\* other screen was rendered, no choice is recorded, the user-config file
\* was not written and the apply program was not launched.
C3_SkipSetupAborts ==
    SkipConfirmed =>
        /\ pc \in {"returned", "exit", "crashed"}
        /\ trace = <<step_welcome>>
        /\ user_choices = EmptyDict
        /\ persist_count = 0
        /\ apply_count = 0
        /\ config_file \in {NoFile, OldConfigFile}
        /\ pc # "crashed" => exit_status \in {NoExit, 0}

C3_Witness == SkipConfirmed /\ pc = "exit" /\ config_file = NoFile

\* gpu.vendor is present and equals 'nvidia'
VendorIsNvidia ==
    /\ "gpu" \in DOMAIN hardware_profile
    /\ "vendor" \in DOMAIN hardware_profile["gpu"]
    /\ hardware_profile["gpu"]["vendor"] = "nvidia"

\* the sequencer is past the GPU step
PastGpuStep == step_developer_tools \in Range(trace)

\* C4: the GPU menu is rendered and nvidia_mode can be set only when
\* gpu.vendor is 'nvidia'; once the sequencer is past the GPU step, the menu
\* was rendered if and only if gpu.vendor is 'nvidia'.
C4_GpuStepIffNvidia ==
    /\ ~VendorIsNvidia =>
          /\ step_nvidia_settings \notin Range(trace)
          /\ "nvidia_mode" \notin DOMAIN user_choices
    /\ PastGpuStep => (step_nvidia_settings \in Range(trace) <=> VendorIsNvidia)

\* a profile with another vendor went past the GPU step without the menu
C4_Witness ==
    /\ PastGpuStep
    /\ "gpu" \in DOMAIN hardware_profile
    /\ "vendor" \in DOMAIN hardware_profile["gpu"]
    /\ hardware_profile["gpu"]["vendor"] = "NVIDIA"
    /\ step_nvidia_settings \notin Range(trace)
    /\ pc = step_developer_tools

\* system.profile, or None where the section or the field is absent
SystemProfile ==
    IF "system" \in DOMAIN hardware_profile
       /\ "profile" \in DOMAIN hardware_profile["system"]
    THEN hardware_profile["system"]["profile"]
    ELSE None

\* the options of the menu on screen whose label carries "(Recommended)"
Annotated ==
    {i \in DOMAIN Options(pc, hardware_profile) :
        Options(pc, hardware_profile)[i].recommended}

\* the options of the profile menu whose key is system.profile
Matching == {i \in DOMAIN profiles : profiles[i] = SystemProfile}

\* C5 as stated: for each of the six profile keys, the annotation is on
\* exactly the option with that key.
C5_AnnotationOnAllSixKeys ==
    (pc = step_profile_selection /\ SystemProfile \in Range(profiles)) =>
        Annotated = Matching

\* C5 as amended: for the five keys ultimate, workstation, gaming, developer
\* and server the annotation is on exactly the option with that key; for
\* 'auto' no option is annotated.
C5_AnnotationOnFiveKeys ==
    pc = step_profile_selection =>
        /\ SystemProfile \in Range(profiles) \ {"auto"} =>
              (Annotated = Matching /\ Cardinality(Annotated) = 1)
        /\ SystemProfile = "auto" => Annotated = {}

\* the spec's scenario: system.profile 'gaming' shows "Gaming (Recommended)"
C5_Witness ==
    /\ pc = step_profile_selection
    /\ SystemProfile = "gaming"
    /\ Annotated = {3}
    /\ Options(pc, hardware_profile)[3].label = "Gaming"

\* the step the sequencer goes to when the menu of step m has returned
\* anything but "Skip Setup"
StepAfter(m) ==
    CASE m = step_welcome -> detect_hardware
      [] m = step_profile_selection -> step_optimizations
      [] m = step_optimizations ->
            IF VendorIsNvidia THEN step_nvidia_settings ELSE step_developer_tools
      [] m = step_nvidia_settings -> step_developer_tools
      [] m = step_developer_tools -> step_privacy_telemetry
      [] m = step_privacy_telemetry -> apply_configuration

\* C6: the quit key makes the menu return -1, the step records nothing, and
\* the sequencer renders the next step all the same; a run that returns
\* without "Skip Setup" has been through Apply and Complete, whatever was
\* cancelled on the way.
C6_QuitSwallowed ==
    [][ /\ KeyQuit =>
              /\ ret' = -1
              /\ user_choices' = user_choices
              /\ pc' = StepAfter(pc)
              /\ trace' = Append(trace, StepAfter(pc))
        /\ (pc' = "returned" /\ trace' # <<step_welcome>>) =>
              /\ apply_configuration \in Range(trace')
              /\ show_complete \in Range(trace')
              /\ persist_count' = 1
              /\ apply_count' = 1
      ]_vars

\* every menu of a run with an NVIDIA GPU was left with the quit key, and
\* the run was applied and has returned with nothing chosen
C6_Witness ==
    /\ pc = "returned"
    /\ ret = -1
    /\ cancelled = Menus \ {step_welcome}
    /\ user_choices = EmptyDict
    /\ config_file = JsonFile(EmptyDict)
    /\ show_complete \in Range(trace)

FourKeys == {"profile", "optimization_mode", "dev_stack", "privacy_level"}

\* the choice steps whose menu has been rendered and has returned
ReturnedSteps == {m \in Menus \ {step_welcome} : m \in Range(trace) /\ pc # m}

\* C7: user_choices holds the field of a choice step exactly when that
\* step's menu was rendered and confirmed; the file persisted by a run
\* without a cancelled step holds exactly the four keys when gpu.vendor is
\* not 'nvidia' (and nvidia_mode besides when it is), and holds nvidia_mode
\* only if the GPU menu was rendered and confirmed.
C7_FieldsPersisted ==
    /\ \A m \in Menus \ {step_welcome} :
          Field(m) \in DOMAIN user_choices <=>
              (m \in ReturnedSteps /\ m \notin cancelled)
    /\ persist_count \in {0, 1}
    /\ persist_count = 1 =>
          /\ config_file.state = "valid"
          /\ config_file.content = user_choices
          /\ (cancelled = {} /\ ~VendorIsNvidia) =>
                DOMAIN config_file.content = FourKeys
          /\ (cancelled = {} /\ VendorIsNvidia) =>
                DOMAIN config_file.content = FourKeys \cup {"nvidia_mode"}
          /\ "nvidia_mode" \in DOMAIN config_file.content =>
                /\ step_nvidia_settings \in Range(trace)
                /\ step_nvidia_settings \notin cancelled

\* the spec's scenario, on a machine an earlier run had configured: the file
\* that held five keys is overwritten with the four chosen now
C7_Witness ==
    /\ persist_count = 1
    /\ cancelled = {}
    /\ ~VendorIsNvidia
    /\ marker
    /\ config_file.content =
          [profile |-> "developer", optimization_mode |-> "balanced",
           dev_stack |-> "web", privacy_level |-> "minimal"]

\* C8 as stated: whatever the collaborators do, the run does not end by an
\* unhandled error.
C8_NoFatalError == pc # "crashed"

\* C9: the bar has floor(current_step * 50 / 7) filled cells and 50 less
\* that many empty ones, for every current_step in 0 .. 7.
C9_ProgressBarCells ==
    /\ total_steps = 7
    /\ progress_width = 50
    /\ pc = "drawn" =>
          /\ current_step \in 0 .. 7
          /\ bar_filled = (current_step * 50) \div 7
          /\ bar_empty = 50 - bar_filled
          /\ bar_filled + bar_empty = 50

C9_Witness ==
    /\ pc = "drawn"
    /\ current_step = 6
    /\ bar_filled = 42
    /\ bar_empty = 8

\* the detection executable ran and left no profile file the wizard can load
ProfileUnusable ==
    /\ detect_launched = "returned"
    /\ profile_file.state \in {"absent", "malformed"}

\* the profile is empty, the profile menu is (or was) on screen with the
\* default recommendation and no annotated option, the GPU menu is not
\* rendered, and nothing ends the run before Apply
RecoveredLocally ==
    /\ hardware_profile = EmptyDict
    /\ step_profile_selection \in Range(trace)
    /\ Recommended(hardware_profile) = "standard"
    /\ pc = step_profile_selection => Annotated = {}
    /\ step_nvidia_settings \notin Range(trace)
    /\ pc # "crashed" \/ apply_configuration \in Range(trace)

\* C10 as stated: a missing or malformed profile file is recovered from
\* without any error message.
C10_RecoveredSilently ==
    ProfileUnusable => (RecoveredLocally /\ ~error_shown)

\* C10 as amended: a missing or malformed profile file is recovered from
\* locally; a missing file shows no error message, a malformed one shows the
\* "Error detecting hardware" message.
C10_RecoveredLocally ==
    ProfileUnusable =>
        /\ RecoveredLocally
        /\ error_shown <=> profile_file.state = "malformed"

\* a malformed file: the error was drawn, and the run went on past the GPU
\* step without the GPU menu
C10_Witness ==
    /\ ProfileUnusable
    /\ profile_file.state = "malformed"
    /\ error_shown
    /\ pc = step_developer_tools
    /\ step_nvidia_settings \notin Range(trace)

\* C11: when launching the detection executable raises, the error message
\* is drawn, the profile menu is rendered next with the profile data there
\* is (none), and the error does not end the run: the run goes on to the
\* steps after it.
C11_LaunchErrorCaught ==
    /\ detect_launched = "raised" =>
          /\ error_shown
          /\ hardware_profile = EmptyDict
          /\ step_profile_selection \in Range(trace)
          /\ pc # "crashed" \/ apply_configuration \in Range(trace)
    /\ (pc = step_profile_selection /\ detect_launched = "raised") =>
          exit_status = NoExit

\* the launch raised while a valid profile file was on disk, and the run has
\* gone on to show its last screen
C11_Witness ==
    /\ detect_launched = "raised"
    /\ error_shown
    /\ profile_file.state = "valid"
    /\ pc = show_complete

\* the screens and process states that follow the return of the apply program
AfterApply == {"apply_done", show_complete, "returned", "exit"}

\* C12: once the apply program has been launched and has exited, with
\* status zero or not, the completion text of Apply is on screen or the run
\* has gone on to Complete; the status ends nothing, and a run that returns
\* has shown Complete.
C12_ExitStatusIgnored ==
    apply_status # NoExit =>
        /\ apply_count = 1
        /\ pc \in AfterApply
        /\ exit_status \in {NoExit, 0}
        /\ pc # "apply_done" => show_complete \in Range(trace)

\* the apply program exited with status 1 and the Complete screen is shown
C12_Witness ==
    /\ apply_status = 1
    /\ pc = show_complete
    /\ exit_status = NoExit

\* the steps in the order run calls them
StepOrder ==
    <<step_welcome, detect_hardware, step_profile_selection,
      step_optimizations, step_nvidia_settings, step_developer_tools,
      step_privacy_telemetry, apply_configuration, show_complete>>

NotGpuStep(m) == m # step_nvidia_settings

\* the same order for a run whose GPU step returns without its menu
StepOrderGpuSkipped == SelectSeq(StepOrder, NotGpuStep)

IsPrefix(s, t) ==
    /\ Len(s) <= Len(t)
    /\ \A i \in DOMAIN s : s[i] = t[i]

\* C13: the steps a run has entered are an initial part of the fixed order,
\* with the GPU step in it or left out, so each is entered at most once and
\* none out of order; the values current_step has been given are an initial
\* part of 0,1,2,3,4,5,6, so it never decreases and stays in
\* 0 .. total_steps - 1; a run that reaches Complete has gone through all of
\* them.
C13_FixedOrder ==
    /\ IsPrefix(trace, StepOrder) \/ IsPrefix(trace, StepOrderGpuSkipped)
    /\ IsPrefix(current_step_log, <<0, 1, 2, 3, 4, 5, 6>>)
    /\ current_step = current_step_log[Len(current_step_log)]
    /\ current_step \in 0 .. (total_steps - 1)
    /\ show_complete \in Range(trace) =>
          /\ trace \in {StepOrder, StepOrderGpuSkipped}
          /\ current_step_log = <<0, 1, 2, 3, 4, 5, 6>>

\* a run without the GPU menu is showing Complete: eight screens, and
\* current_step went through 4 all the same
C13_Witness ==
    /\ pc = show_complete
    /\ trace = StepOrderGpuSkipped
    /\ Len(trace) = 8
    /\ current_step_log = <<0, 1, 2, 3, 4, 5, 6>>
    /\ current_step = 6

FiveKeys ==
    {"profile", "optimization_mode", "nvidia_mode", "dev_stack", "privacy_level"}

\* C14: user_choices is empty when the run starts; no step of the run takes
\* a key out of it or changes the value of a key it holds, every step adds
\* at most one key, and its keys are among the five field names.
C14_ChoicesAppendOnly ==
    [][ /\ pc = "main" => user_choices = EmptyDict
        /\ DOMAIN user_choices \subseteq DOMAIN user_choices'
        /\ \A k \in DOMAIN user_choices : user_choices'[k] = user_choices[k]
        /\ Cardinality(DOMAIN user_choices' \ DOMAIN user_choices) <= 1
        /\ DOMAIN user_choices' \subseteq FiveKeys
      ]_vars

\* five fields were added one after the other, and Apply has begun
C14_Witness ==
    /\ DOMAIN user_choices = FiveKeys
    /\ pc = apply_configuration
    /\ cancelled = {}

\* C15 as stated: in every frame of a menu the only description on the
\* screen is the one below the highlighted option.
C15_DescriptionOnlyBelowHighlighted ==
    pc \in Menus => desc_rows = {current_selection}

\* Apply has not been reached, or has not drawn its last task label yet
BeforeLastLabel ==
    \/ apply_configuration \notin Range(trace)
    \/ tasks_shown < Len(tasks)

\* C16: until Apply has drawn all five task labels the user-config file is
\* as the run found it, nothing was written and the apply program was not
\* launched; the file is written at most once and the apply program launched
\* at most once, the launch only after the write; once Apply shows its
\* completion text both have happened exactly once.
C16_SideEffectsBatched ==
    /\ Len(tasks) = 5
    /\ BeforeLastLabel =>
          /\ persist_count = 0
          /\ apply_count = 0
          /\ config_file \in {NoFile, OldConfigFile}
    /\ persist_count \in {0, 1}
    /\ apply_count \in {0, 1}
    /\ apply_count = 1 => persist_count = 1
    /\ pc = "run_apply" => (persist_count = 1 /\ apply_count = 0)
    /\ (pc \in AfterApply /\ apply_configuration \in Range(trace)) =>
          (persist_count = 1 /\ apply_count = 1)

\* the file is written, over the one an earlier run left, and the apply
\* program is about to be launched
C16_Witness ==
    /\ pc = "run_apply"
    /\ tasks_shown = 5
    /\ persist_count = 1
    /\ apply_count = 0
    /\ marker
    /\ config_file = JsonFile(user_choices)
    /\ config_file # OldConfigFile

\* one option only has been highlighted since the menu opened
NotNavigated == Cardinality(desc_rows) = 1

\* C17: every menu opens with option 0 highlighted, whatever the hardware
\* profile recommends, and the profile menu confirmed without the highlight
\* having moved records 'ultimate'.
C17_NoPreselection ==
    [][ /\ (pc' \in Menus /\ pc' # pc) => current_selection' = 0
        /\ (KeyEnter /\ pc = step_profile_selection /\ NotNavigated) =>
              /\ ret' = 0
              /\ user_choices' = [profile |-> "ultimate"]
      ]_vars

\* the profile recommends 'gaming', the profile menu was confirmed on its
\* first option and 'ultimate' is recorded
C17_Witness ==
    /\ SystemProfile = "gaming"
    /\ pc = step_optimizations
    /\ ret = 0
    /\ user_choices = [profile |-> "ultimate"]

\* the key set of each field
FieldKeys ==
    [profile |-> {"ultimate", "workstation", "gaming", "developer", "server",
                  "auto"},
     optimization_mode |-> {"performance", "balanced", "powersave", "custom"},
     nvidia_mode |-> {"gaming", "creator", "compute", "auto"},
     dev_stack |-> {"full", "web", "systems", "datascience", "devops",
                    "minimal"},
     privacy_level |-> {"maximum", "minimal", "full"}]

\* C18: in every choice step the option list on screen and the step's key
\* list have the same length; the index a confirmed menu returns is an
\* index of that key list, recording it raises nothing, and the value stored
\* in the step's field is the key at that index; every stored value is in
\* its field's key set.
C18_StoredKeyAtConfirmedIndex ==
    [][ /\ pc \in Menus \ {step_welcome} =>
              /\ Len(Options(pc, hardware_profile)) = Len(KeyList(pc))
              /\ Range(KeyList(pc)) = FieldKeys[Field(pc)]
        /\ (KeyEnter /\ pc # step_welcome) =>
              /\ ret' \in 0 .. (Len(KeyList(pc)) - 1)
              /\ pc' # "crashed"
              /\ Field(pc) \in DOMAIN user_choices'
              /\ user_choices'[Field(pc)] = KeyList(pc)[ret' + 1]
        /\ \A k \in DOMAIN user_choices' : user_choices'[k] \in FieldKeys[k]
      ]_vars

\* the last option of the privacy menu was confirmed and its key is stored
C18_Witness ==
    /\ pc = apply_configuration
    /\ ret = 2
    /\ "privacy_level" \in DOMAIN user_choices
    /\ user_choices["privacy_level"] = "full"
    /\ "dev_stack" \in DOMAIN user_choices
    /\ user_choices["dev_stack"] = "minimal"

\* C19 as stated: when the wizard run has returned, by "Skip Setup" or after
\* Complete, the marker is created; a run that ends by an unhandled error
\* leaves the marker as it was.
C19_MarkerOnNormalReturn ==
    [][ /\ pc = "returned" => marker'
        /\ (pc # "returned" /\ pc' = "crashed") => marker' = marker
      ]_vars

\* C20: hardware_profile changes only in the step of detect_hardware in
\* which the executable was launched and returned and a profile file that
\* parses is there, and it then holds the file's content; it is assigned at
\* most once, detect_hardware being run once; when the launch raised it is
\* empty, whatever is on disk, the GPU menu is never rendered and the
\* recommendation is the default one.
C20_ProfileAssignedOnce ==
    [][ /\ hardware_profile' # hardware_profile =>
              /\ pc = detect_hardware
              /\ hardware_profile = EmptyDict
              /\ detect_launched' = "returned"
              /\ profile_file'.state = "valid"
              /\ hardware_profile' = profile_file'.content
        /\ pc = detect_hardware =>
              Len(SelectSeq(trace', LAMBDA m : m = detect_hardware)) = 1
        /\ detect_launched' = "raised" =>
              /\ hardware_profile' = EmptyDict
              /\ step_nvidia_settings \notin Range(trace')
              /\ Recommended(hardware_profile') = "standard"
      ]_vars

\* the launch raised with a valid NVIDIA profile on disk, and the run went
\* from Optimizations to Developer Tools with nothing loaded
C20_Witness ==
    /\ detect_launched = "raised"
    /\ profile_file =
          JsonFile([system |-> [profile |-> "gaming"], gpu |-> [vendor |-> "nvidia"]])
    /\ hardware_profile = EmptyDict
    /\ pc = step_developer_tools
    /\ step_nvidia_settings \notin Range(trace)

====
